---- MODULE Spec2Model ----
(***************************************************************************)
(* A model of examples/vision/ipynb/mlp_image_classification.ipynb: the    *)
(* patch extractor, the three mixing blocks (MLPMixerLayer, FNetLayer,     *)
(* gMLPLayer), build_classifier and the cells that use them.               *)
(*                                                                         *)
(* A tensor is modelled by its shape (a sequence of dimensions) and by the *)
(* term that computed it (a sequence of operation names in prefix order,   *)
(* every operation having a fixed number of arguments).  An operation      *)
(* that raises in TensorFlow yields the error tensor ErrT.                 *)
(***************************************************************************)
EXTENDS Integers, Sequences, FiniteSets, TLC

VARIABLES
    image_size,      \* global image_size of the hyperparameter cell
    patch_size,      \* global patch_size
    num_patches,     \* global num_patches = (image_size // patch_size) ** 2
    embedding_dim,   \* global embedding_dim
    num_blocks,      \* global num_blocks
    channels,        \* input_shape[2]
    learning_rate,   \* global learning_rate, in thousandths
    layer,           \* the mixing block object under construction / call
    call,            \* the last layer call: its input and every intermediate
    pc,              \* the next notebook cell to run
    blocks,          \* the block stack of the last experiment cell
    model,           \* what build_classifier computed for the last classifier
    optimizer_lr,    \* the learning rate run_experiment gave its optimizer
    px,              \* a Patches.call on pixels: each output element's source
    fval,            \* an FNetLayer.call on values: input and residual sum
    heap             \* the number of layer objects allocated so far

vars == <<image_size, patch_size, num_patches, embedding_dim, num_blocks,
          channels, learning_rate, layer, call, pc, blocks, model,
          optimizer_lr, px, fval, heap>>

----------------------------------------------------------------------------
(* Bounds of the model. *)
MaxBatch == 2
MaxPatches == 3
MaxWidth == 3
MaxImage == 4
MaxPatch == 3
MaxBlocks == 2
MaxPixels == 6
MaxChannels == 3
MaxValue == 1
MaxElements == 4

Batches == 1..MaxBatch
PatchCounts == 1..MaxPatches
Widths == 1..MaxWidth

(* Program constants of the notebook. *)
NbImageSize == 64
NbPatchSize == 8
NbEmbeddingDim == 256
NbNumBlocks == 4
NbNumClasses == 100
NbChannels == 3
NbInputSize == 32
LrMixer == 5
LrFNet == 1
LrgMLP == 3

----------------------------------------------------------------------------
(* Shapes and the TensorFlow / Keras operations the notebook calls. *)

Max(a, b) == IF a >= b THEN a ELSE b

Err == << >>

ErrT == [shape |-> Err, term |-> <<"error">>]

IsErr(t) == t.shape = Err

Tensor(shape, name) == [shape |-> shape, term |-> <<name>>]

(* A unary operation: its result shape and its name in front of the term. *)
Unary(name, shape, t) ==
    IF IsErr(t) \/ shape = Err THEN ErrT
    ELSE [shape |-> shape, term |-> <<name>> \o t.term]

(* A binary operation. *)
Binary(name, shape, a, b) ==
    IF IsErr(a) \/ IsErr(b) \/ shape = Err THEN ErrT
    ELSE [shape |-> shape, term |-> <<name>> \o a.term \o b.term]

(* The i-th dimension counted from the right; 1 beyond the rank, as in    *)
(* NumPy broadcasting.                                                     *)
DimFromRight(s, i) == IF i <= Len(s) THEN s[Len(s) + 1 - i] ELSE 1

BroadcastShape(a, b) ==
    LET n == Max(Len(a), Len(b))
        ok == \A i \in 1..n :
                 \/ DimFromRight(a, i) = DimFromRight(b, i)
                 \/ DimFromRight(a, i) = 1
                 \/ DimFromRight(b, i) = 1
    IN  IF a = Err \/ b = Err \/ ~ok THEN Err
        ELSE [j \in 1..n |->
                 Max(DimFromRight(a, n + 1 - j), DimFromRight(b, n + 1 - j))]

(* a + b and a * b on tensors: element-wise with broadcasting. *)
Add(a, b) == Binary("add", BroadcastShape(a.shape, b.shape), a, b)

Multiply(a, b) == Binary("multiply", BroadcastShape(a.shape, b.shape), a, b)

(* layers.Dense(units): maps the last axis to `units`. *)
DenseShape(units, s) ==
    IF s = Err \/ Len(s) < 2 THEN Err ELSE [s EXCEPT ![Len(s)] = units]

Dense(name, units, t) == Unary(name, DenseShape(units, t.shape), t)

(* layers.LayerNormalization, tfa.layers.GELU, layers.Dropout keep the shape. *)
SameShape(name, t) == Unary(name, t.shape, t)

(* tf.linalg.matrix_transpose: swaps the last two axes. *)
TransposeShape(s) ==
    IF s = Err \/ Len(s) < 2 THEN Err
    ELSE [s EXCEPT ![Len(s)] = s[Len(s) - 1], ![Len(s) - 1] = s[Len(s)]]

matrix_transpose(t) == Unary("matrix_transpose", TransposeShape(t.shape), t)

(* tf.split(x, num_or_size_splits=2, axis=2): raises unless axis 2 divides *)
(* evenly; half k (1 or 2) of the result.                                  *)
SplitShape(s) ==
    IF s = Err \/ Len(s) < 3 THEN Err
    ELSE IF s[3] % 2 # 0 THEN Err
    ELSE [s EXCEPT ![3] = s[3] \div 2]

split(k, t) ==
    Unary(IF k = 1 THEN "split_u" ELSE "split_v", SplitShape(t.shape), t)

(* tf.cast(tf.signal.fft2d(tf.cast(x, complex64)), float32): the real part *)
(* of the 2D transform over the last two axes; the shape is kept.          *)
fft2d_real(t) ==
    Unary("fft2d_real", IF Len(t.shape) < 2 THEN Err ELSE t.shape, t)

----------------------------------------------------------------------------
(* The mixing blocks.  A layer object records the arguments its            *)
(* constructor was given and the unit counts of the Dense layers it        *)
(* creates, in the order __init__ creates them.                            *)

NoLayer == [kind |-> "none", n_patches |-> 0, width |-> 0, units |-> << >>]

(* MLPMixerLayer.__init__(num_patches, hidden_units, dropout_rate): mlp1   *)
(* is Dense(num_patches), GELU, Dense(num_patches), Dropout; mlp2 is       *)
(* Dense(num_patches), GELU, Dense(embedding_dim), Dropout, where          *)
(* embedding_dim is the notebook's global, not a constructor argument.     *)
MLPMixerLayer(n_patches, hidden_units) ==
    [kind |-> "mixer", n_patches |-> n_patches, width |-> hidden_units,
     units |-> <<n_patches, n_patches, n_patches, embedding_dim>>]

(* FNetLayer.__init__(num_patches, embedding_dim, dropout_rate): ffn is    *)
(* Dense(embedding_dim), GELU, Dropout, Dense(embedding_dim) with the      *)
(* constructor's embedding_dim.                                            *)
FNetLayer(n_patches, emb_dim) ==
    [kind |-> "fnet", n_patches |-> n_patches, width |-> emb_dim,
     units |-> <<emb_dim, emb_dim>>]

(* gMLPLayer whose first channel projection keeps the width E. *)
gMLPLayer_SingleWidth(n_patches, emb_dim) ==
    [kind |-> "gmlp", n_patches |-> n_patches, width |-> emb_dim,
     units |-> <<emb_dim, emb_dim, n_patches>>]

(* gMLPLayer.__init__(num_patches, embedding_dim, dropout_rate):           *)
(* channel_projection1 is Dense(embedding_dim * 2), GELU, Dropout;         *)
(* channel_projection2 is Dense(embedding_dim); spatial_projection is      *)
(* Dense(num_patches).                                                     *)
gMLPLayer(n_patches, emb_dim) ==
    [kind |-> "gmlp", n_patches |-> n_patches, width |-> emb_dim,
     units |-> <<emb_dim * 2, emb_dim, n_patches>>]

(* A keras.Sequential of two Dense layers with shape-preserving layers     *)
(* (GELU, Dropout) between and after them.                                 *)
TwoDense(name, u1, u2, t) ==
    Unary(name, DenseShape(u2, DenseShape(u1, t.shape)), t)

(* MixerTokenMixing without the transpose back to (B, P, E). *)
MixerTokenMixing_NoTransposeBack(self, inputs) ==
    LET x            == SameShape("normalize", inputs)
        x_channels   == matrix_transpose(x)
    IN  TwoDense("mlp1", self.units[1], self.units[2], x_channels)

(* MLPMixerLayer.call: the token-mixing branch up to the transpose back.   *)
MixerTokenMixing(self, inputs) ==
    LET x            == SameShape("normalize", inputs)
        x_channels   == matrix_transpose(x)
        mlp1_outputs == TwoDense("mlp1", self.units[1], self.units[2], x_channels)
    IN  matrix_transpose(mlp1_outputs)

(* MLPMixerLayer.call *)
MLPMixerCall(self, inputs) ==
    LET mlp1_outputs == MixerTokenMixing(self, inputs)
        x            == Add(mlp1_outputs, inputs)
        x_patches    == SameShape("normalize", x)
        mlp2_outputs == TwoDense("mlp2", self.units[3], self.units[4], x_patches)
    IN  [inputs |-> inputs, mlp1_outputs |-> mlp1_outputs, x |-> x,
         mlp2_outputs |-> mlp2_outputs, out |-> Add(x, mlp2_outputs)]

(* FNetLayer.call *)
FNetCall(self, inputs) ==
    LET x_fft == fft2d_real(inputs)
        x_sum == Add(x_fft, inputs)
        x     == SameShape("normalize1", x_sum)
        x_ffn == TwoDense("ffn", self.units[1], self.units[2], x)
        x2    == Add(x, x_ffn)
    IN  [inputs |-> inputs, x_sum |-> x_sum, x_ffn |-> x_ffn,
         out |-> SameShape("normalize2", x2)]

(* gMLPLayer.spatial_gating_unit: the two halves and the gated product.    *)
SpatialGatingUnit(self, x) ==
    LET u           == split(1, x)
        v           == split(2, x)
        v_norm      == SameShape("normalize2", v)
        v_channels  == matrix_transpose(v_norm)
        v_projected == matrix_transpose(
                           Dense("spatial_projection", self.units[3], v_channels))
    IN  [u |-> u, v |-> v, out |-> Multiply(u, v_projected)]

(* gMLPLayer.channel_projection1: Dense(embedding_dim * 2), GELU, Dropout. *)
ChannelProjection1(self, x) == Dense("channel_projection1", self.units[1], x)

(* gMLPLayer.channel_projection2: Dense(embedding_dim). *)
ChannelProjection2(self, x) == Dense("channel_projection2", self.units[2], x)

(* The operand the last line of gMLPLayer.call adds x_projected to: the    *)
(* local x, which the first line rebinds to normalize1(inputs).            *)
gMLPSkip(inputs, x) == x

(* gMLPLayer.call *)
gMLPCall(self, inputs) ==
    LET x            == SameShape("normalize1", inputs)
        x_projected  == ChannelProjection1(self, x)
        sgu          == SpatialGatingUnit(self, x_projected)
        x_projected2 == ChannelProjection2(self, sgu.out)
    IN  [inputs |-> inputs, u |-> sgu.u, v |-> sgu.v, x_spatial |-> sgu.out,
         x_projected |-> x_projected2,
         out |-> Add(gMLPSkip(inputs, x), x_projected2)]

LayerCall(self, inputs) ==
    CASE self.kind = "mixer" -> MLPMixerCall(self, inputs)
      [] self.kind = "fnet"  -> FNetCall(self, inputs)
      [] self.kind = "gmlp"  -> gMLPCall(self, inputs)

(* The objects a block owns.  Constructing a block allocates the block     *)
(* object at address `at` and, after it, one object per attribute its      *)
(* __init__ assigns; an object's trainable parameters belong to it alone.  *)

Obj(at, class) == [at |-> at, class |-> class]

(* SubLayers where FNetLayer's normalize2 is bound to normalize1's object. *)
SubLayers_AliasedNorm(kind, at) ==
    CASE kind = "mixer" ->
            [mlp1      |-> Obj(at + 1, "Sequential"),
             mlp2      |-> Obj(at + 2, "Sequential"),
             normalize |-> Obj(at + 3, "LayerNormalization")]
      [] kind = "fnet" ->
            [ffn        |-> Obj(at + 1, "Sequential"),
             normalize1 |-> Obj(at + 2, "LayerNormalization"),
             normalize2 |-> Obj(at + 2, "LayerNormalization")]
      [] kind = "gmlp" ->
            [channel_projection1 |-> Obj(at + 1, "Sequential"),
             channel_projection2 |-> Obj(at + 2, "Dense"),
             spatial_projection  |-> Obj(at + 3, "Dense"),
             normalize1          |-> Obj(at + 4, "LayerNormalization"),
             normalize2          |-> Obj(at + 5, "LayerNormalization")]

(* The attributes the three __init__ methods assign, in their order.       *)
SubLayers(kind, at) ==
    CASE kind = "mixer" ->
            [mlp1      |-> Obj(at + 1, "Sequential"),
             mlp2      |-> Obj(at + 2, "Sequential"),
             normalize |-> Obj(at + 3, "LayerNormalization")]
      [] kind = "fnet" ->
            [ffn        |-> Obj(at + 1, "Sequential"),
             normalize1 |-> Obj(at + 2, "LayerNormalization"),
             normalize2 |-> Obj(at + 3, "LayerNormalization")]
      [] kind = "gmlp" ->
            [channel_projection1 |-> Obj(at + 1, "Sequential"),
             channel_projection2 |-> Obj(at + 2, "Dense"),
             spatial_projection  |-> Obj(at + 3, "Dense"),
             normalize1          |-> Obj(at + 4, "LayerNormalization"),
             normalize2          |-> Obj(at + 5, "LayerNormalization")]

(* The number of objects one constructor call allocates. *)
ObjectCount(kind) == 1 + Cardinality(DOMAIN SubLayers(kind, 0))

(* The layer object a constructor call returns when `at` objects exist. *)
New(cfg, at) == cfg @@ [at |-> at, sublayers |-> SubLayers(cfg.kind, at)]

(* A list that holds one instance n times. *)
BlockList_SameInstance(cfg, n, at) == [i \in 1..n |-> New(cfg, at)]

(* [Layer(...) for _ in range(n)]: the constructor runs once per element.  *)
BlockList(cfg, n, at) ==
    [i \in 1..n |-> New(cfg, at + (i - 1) * ObjectCount(cfg.kind))]

NoCall == [inputs |-> ErrT, out |-> ErrT]


----------------------------------------------------------------------------
(* Patch extraction, the embedding and build_classifier, on shapes.        *)

RECURSIVE Product(_)
Product(s) == IF s = << >> THEN 1 ELSE Head(s) * Product(Tail(s))

(* The output extent of a VALID window of size k moved by stride over an   *)
(* axis of extent n.                                                       *)
ValidOut(n, k, stride) == (n - k + stride) \div stride

(* extract_patches whose depth forgets the channels. *)
ExtractPatchesShape_NoChannels(s, p) ==
    IF s = Err \/ Len(s) # 4 \/ s[2] < p \/ s[3] < p THEN Err
    ELSE <<s[1], (s[2] - p + p) \div p, (s[3] - p + p) \div p, p * p>>

(* tf.image.extract_patches(images, sizes=[1,p,p,1], strides=[1,p,p,1],    *)
(* rates=[1,1,1,1], padding="VALID") on a (B, H, W, C) batch.              *)
ExtractPatchesShape(s, p) ==
    IF s = Err \/ Len(s) # 4 \/ s[2] < p \/ s[3] < p THEN Err
    ELSE <<s[1], ValidOut(s[2], p, p), ValidOut(s[3], p, p), p * p * s[4]>>

(* tf.reshape(t, target): raises unless the element counts agree. *)
ReshapeShape(s, target) ==
    IF s = Err \/ Product(s) # Product(target) THEN Err ELSE target

(* num_patches without the square. *)
NumPatches_NotSquared(isize, psize) == isize \div psize

(* num_patches = (image_size // patch_size) ** 2 *)
NumPatches(isize, psize) == (isize \div psize) * (isize \div psize)

(* Patches.call of a Patches(patch_size, num_patches) layer. *)
PatchesCall(p_size, n_patches, images) ==
    LET batch_size == images.shape[1]
        patches    == Unary("extract_patches",
                            ExtractPatchesShape(images.shape, p_size), images)
        patch_dims == patches.shape[4]
    IN  IF IsErr(images) \/ IsErr(patches) THEN ErrT
        ELSE Unary("reshape",
                   ReshapeShape(patches.shape,
                                <<batch_size, n_patches, patch_dims>>),
                   patches)

(* data_augmentation: Normalization, Resizing(image_size, image_size),     *)
(* RandomFlip, RandomZoom.                                                 *)
data_augmentation(inputs) ==
    Unary("data_augmentation",
          <<inputs.shape[1], image_size, image_size, inputs.shape[4]>>, inputs)

(* tf.range with the limit included. *)
Range_Inclusive(start, limit, delta) ==
    [i \in 1..(IF limit >= start THEN (limit - start) \div delta + 1 ELSE 0)
        |-> start + (i - 1) * delta]

(* tf.range(start, limit, delta) for delta > 0, as a sequence. *)
Range(start, limit, delta) ==
    [i \in 1..(IF limit > start THEN (limit - start + delta - 1) \div delta ELSE 0)
        |-> start + (i - 1) * delta]

(* layers.Embedding(input_dim, output_dim)(ids): the table row each id     *)
(* selects; ids outside the table raise.                                   *)
EmbeddingRows(input_dim, ids) ==
    IF \A i \in DOMAIN ids : ids[i] \in 0..(input_dim - 1) THEN ids ELSE << >>

(* x + position_embedding on rows: the table rows added to patch i of      *)
(* image b, the (P, E) operand being broadcast over the batch.             *)
AddedRows(batch, n_rows, rows) ==
    [b \in 1..batch |->
        [i \in 1..n_rows |-> <<rows[IF Len(rows) = 1 THEN 1 ELSE i]>>]]

NoRows(batch, n_rows) == [b \in 1..batch |-> [i \in 1..n_rows |-> << >>]]

(* keras.Sequential(list of blocks)(x) *)
RECURSIVE Sequential(_, _)
Sequential(ls, x) ==
    IF ls = << >> THEN x ELSE Sequential(Tail(ls), LayerCall(Head(ls), x).out)

(* layers.GlobalAveragePooling1D: (B, P, E) to (B, E). *)
PoolShape(s) == IF s = Err \/ Len(s) # 3 THEN Err ELSE <<s[1], s[3]>>

NoModel ==
    [built |-> FALSE, batch |-> 0, positional |-> FALSE, patches |-> ErrT,
     embedded |-> ErrT, table_rows |-> 0, added |-> << >>, x0 |-> ErrT,
     x |-> ErrT, logits |-> ErrT]

(* build_classifier(blocks, positional_encoding), on a batch of `batch`    *)
(* images of input_shape.                                                  *)
build_classifier(blks, positional_encoding, batch) ==
    LET inputs    == Tensor(<<batch, NbInputSize, NbInputSize, channels>>, "inputs")
        augmented == data_augmentation(inputs)
        patches   == PatchesCall(patch_size, num_patches, augmented)
        embedded  == Dense("dense", embedding_dim, patches)
        positions == Range(0, num_patches, 1)
        rows      == EmbeddingRows(num_patches, positions)
        position_embedding ==
            IF rows = << >> THEN ErrT
            ELSE Tensor(<<Len(rows), embedding_dim>>, "position_embedding")
        x0        == IF positional_encoding
                     THEN Add(embedded, position_embedding) ELSE embedded
        x         == Sequential(blks, x0)
        representation == Unary("pool", PoolShape(x.shape), x)
        logits    == Dense("logits", NbNumClasses, representation)
    IN  [built      |-> ~IsErr(logits),
         batch      |-> batch,
         positional |-> positional_encoding,
         patches    |-> patches,
         embedded   |-> embedded,
         table_rows |-> IF positional_encoding THEN num_patches ELSE 0,
         added      |-> IF IsErr(x0) THEN << >>
                        ELSE IF positional_encoding
                        THEN AddedRows(x0.shape[1], x0.shape[2], rows)
                        ELSE NoRows(x0.shape[1], x0.shape[2]),
         x0         |-> x0,
         x          |-> x,
         logits     |-> logits]


----------------------------------------------------------------------------
(* Patches.call on pixels.  A pixel of the batch is <<b, r, c, ch>>, all   *)
(* counted from 0; the image holds at each pixel that pixel's own          *)
(* coordinates, so the output shows where every element came from.         *)

NoFVal == [called |-> FALSE, inputs |-> << >>, x_sum |-> << >>]

NoPx == [batch |-> 0, ok |-> FALSE, at |-> << >>]

(* Element <<b, i, j, d>> of tf.image.extract_patches(...): window (i, j), *)
(* its p * p * C values laid out by window row, window column, channel.    *)
ExtractPatchesAt(p, c, b, i, j, d) ==
    <<b, i * p + (d \div (p * c)), j * p + ((d \div c) % p), d % c>>

(* A reshape that walks the tiles column by column. *)
ReshapeAt_ColumnMajor(n, pd, n_patches, b, k, d) ==
    LET flat == (b * n_patches + k) * pd + d
    IN  <<flat \div (n * n * pd), (flat \div pd) % n,
          (flat \div (n * pd)) % n, flat % pd>>

(* Element <<b, k, d>> of tf.reshape(patches, [B, num_patches, patch_dims]) *)
(* of the (B, n, n, patch_dims) tensor: the same row-major flat position.  *)
ReshapeAt(n, pd, n_patches, b, k, d) ==
    LET flat == (b * n_patches + k) * pd + d
    IN  <<flat \div (n * n * pd), (flat \div (n * pd)) % n,
          (flat \div pd) % n, flat % pd>>

(* Patches.call on a (batch, isize, isize, c) image batch. *)
PatchesPixels(p, n_patches, batch, isize, c) ==
    LET in_shape  == <<batch, isize, isize, c>>
        ex_shape  == ExtractPatchesShape(in_shape, p)
        n         == ex_shape[2]
        pd        == ex_shape[4]
        out_shape == ReshapeShape(ex_shape, <<batch, n_patches, pd>>)
    IN  IF ex_shape = Err \/ out_shape = Err THEN [NoPx EXCEPT !.batch = batch]
        ELSE [batch |-> batch, ok |-> TRUE,
              at |-> [b \in 0..(batch - 1) |->
                        [k \in 0..(n_patches - 1) |->
                           [d \in 0..(pd - 1) |->
                              LET e == ReshapeAt(n, pd, n_patches, b, k, d)
                              IN  ExtractPatchesAt(p, c, e[1], e[2], e[3], e[4])]]]]

InitPatches ==
    /\ image_size \in 1..MaxPixels
    /\ patch_size \in 1..MaxPatch
    /\ image_size >= patch_size
    /\ num_patches = NumPatches(image_size, patch_size)
    /\ channels \in 1..MaxChannels
    /\ embedding_dim = 0 /\ num_blocks = 0 /\ learning_rate = 0
    /\ layer = NoLayer /\ call = NoCall
    /\ pc = "patches" /\ blocks = << >> /\ model = NoModel /\ optimizer_lr = 0
    /\ px = NoPx /\ fval = NoFVal /\ heap = 0

CallPatches ==
    /\ pc = "patches"
    /\ \E b \in Batches :
          px' = PatchesPixels(patch_size, num_patches, b, image_size, channels)
    /\ UNCHANGED <<image_size, patch_size, num_patches, embedding_dim,
                   num_blocks, channels, learning_rate, layer, call, pc,
                   blocks, model, optimizer_lr, fval, heap>>

NextPatches == CallPatches

SpecPatches == InitPatches /\ [][NextPatches]_vars

----------------------------------------------------------------------------
(* FNetLayer.call on values, for one image: a P x E matrix of integers     *)
(* with P and E in {1, 2, 4}, for which the transform's twiddle factors    *)
(* are powers of -i and the transform is exact over the integers.          *)

FFTSizes == {1, 2, 4}

Values == (0 - MaxValue)..MaxValue

(* Re((-i)^t) *)
ReTwiddle(t) == CASE t % 4 = 0 -> 1 [] t % 4 = 2 -> -1 [] OTHER -> 0

RECURSIVE SumTo(_, _)
SumTo(f, n) == IF n = 0 THEN 0 ELSE f[n] + SumTo(f, n - 1)

(* Element (k, l), from 0, of tf.cast(tf.signal.fft2d(tf.cast(x,           *)
(* complex64)), float32): the real part of sum_{m,n} x[m,n] *              *)
(* exp(-2 pi i (k m / P + l n / E)).                                       *)
FFT2dReal(x, k, l) ==
    LET P == Len(x)
        E == Len(x[1])
        row(m) == SumTo([n \in 1..E |->
                     x[m][n] * ReTwiddle((4 \div P) * k * (m - 1)
                                          + (4 \div E) * l * (n - 1))], E)
    IN  SumTo([m \in 1..P |-> row(m)], P)

(* A residual sum with a ones bias added to the transform. *)
FNetResidualSum_OnesBias(x) ==
    [k \in 1..Len(x) |->
        [l \in 1..Len(x[1]) |-> FFT2dReal(x, k - 1, l - 1) + 1 + x[k][l]]]

(* FNetLayer.call up to the value passed to normalize1: x = fft + inputs.  *)
FNetResidualSum(x) ==
    [k \in 1..Len(x) |->
        [l \in 1..Len(x[1]) |-> FFT2dReal(x, k - 1, l - 1) + x[k][l]]]

InitFNet ==
    /\ image_size = 0 /\ patch_size = 0 /\ num_patches = 0
    /\ num_blocks = 0 /\ channels = 0 /\ learning_rate = 0 /\ embedding_dim = 0
    /\ layer = NoLayer /\ call = NoCall
    /\ pc = "fnet_values" /\ blocks = << >> /\ model = NoModel /\ optimizer_lr = 0
    /\ px = NoPx /\ heap = 0
    /\ \E P \in FFTSizes, E \in FFTSizes :
          /\ P * E <= MaxElements
          /\ \E x \in [1..P -> [1..E -> Values]] :
                fval = [called |-> FALSE, inputs |-> x, x_sum |-> << >>]

CallFNetValues ==
    /\ pc = "fnet_values"
    /\ ~fval.called
    /\ fval' = [called |-> TRUE, inputs |-> fval.inputs,
                x_sum |-> FNetResidualSum(fval.inputs)]
    /\ UNCHANGED <<image_size, patch_size, num_patches, embedding_dim,
                   num_blocks, channels, learning_rate, layer, call, pc,
                   blocks, model, optimizer_lr, px, heap>>

NextFNet == CallFNetValues

SpecFNet == InitFNet /\ [][NextFNet]_vars

----------------------------------------------------------------------------
(* SpecLayer: a block is constructed with any arguments and called on any  *)
(* input of rank 3, under any value of the global embedding_dim.  The      *)
(* block replaces the one constructed before it, whose objects are         *)
(* released, so the allocation count stays as it is.                       *)

InitLayer ==
    /\ image_size = 0 /\ patch_size = 0 /\ num_patches = 0
    /\ num_blocks = 0 /\ channels = 0 /\ learning_rate = 0
    /\ embedding_dim \in Widths
    /\ layer = NoLayer
    /\ call = NoCall
    /\ pc = "unit" /\ blocks = << >> /\ model = NoModel /\ optimizer_lr = 0
    /\ px = NoPx /\ fval = NoFVal /\ heap = 0

Globals == <<image_size, patch_size, num_patches, embedding_dim, num_blocks,
             channels, learning_rate, pc, blocks, model, optimizer_lr, px,
             fval, heap>>

NewMLPMixerLayer ==
    /\ \E p \in PatchCounts, h \in Widths : layer' = New(MLPMixerLayer(p, h), heap)
    /\ call' = NoCall
    /\ UNCHANGED Globals

NewFNetLayer ==
    /\ \E p \in PatchCounts, e \in Widths : layer' = New(FNetLayer(p, e), heap)
    /\ call' = NoCall
    /\ UNCHANGED Globals

NewgMLPLayer ==
    /\ \E p \in PatchCounts, e \in Widths : layer' = New(gMLPLayer(p, e), heap)
    /\ call' = NoCall
    /\ UNCHANGED Globals

CallLayer ==
    /\ layer.kind # "none"
    /\ \E b \in Batches, p \in PatchCounts, e \in Widths :
           call' = LayerCall(layer, Tensor(<<b, p, e>>, "inputs"))
    /\ UNCHANGED <<Globals, layer>>

NextLayer == NewMLPMixerLayer \/ NewFNetLayer \/ NewgMLPLayer \/ CallLayer

SpecLayer == InitLayer /\ [][NextLayer]_vars

(* The input of the last call is the one the layer was constructed for:    *)
(* num_patches patches of the constructor's width.                         *)
Configured ==
    /\ layer.kind # "none"
    /\ ~IsErr(call.inputs)
    /\ call.inputs.shape[2] = layer.n_patches
    /\ call.inputs.shape[3] = layer.width

----------------------------------------------------------------------------
(* Spec: the notebook's cells run in order under any hyperparameters.      *)

ImageSizes == (1..MaxImage) \cup {NbImageSize}
PatchSizes == (1..MaxPatch) \cup {NbPatchSize}
EmbeddingDims == (1..MaxWidth) \cup {NbEmbeddingDim}
BlockCounts == (1..MaxBlocks) \cup {NbNumBlocks}
ChannelCounts == {1, NbChannels}

(* The hyperparameter cell has run; the image is at least one patch wide.  *)
Init ==
    /\ image_size \in ImageSizes
    /\ patch_size \in PatchSizes
    /\ image_size >= patch_size
    /\ num_patches = NumPatches(image_size, patch_size)
    /\ embedding_dim \in EmbeddingDims
    /\ num_blocks \in BlockCounts
    /\ channels \in ChannelCounts
    /\ learning_rate = 0
    /\ layer = NoLayer /\ call = NoCall
    /\ pc = "mlpmixer" /\ blocks = << >> /\ model = NoModel /\ optimizer_lr = 0
    /\ px = NoPx /\ fval = NoFVal /\ heap = 0

Config == <<image_size, patch_size, num_patches, embedding_dim, num_blocks,
            channels, layer, call, px, fval>>

(* An optimizer built without learning_rate=..., at AdamW's default 0.001. *)
run_experiment_DefaultRate(lr) == LrFNet

(* run_experiment(model): the optimizer is built with the global           *)
(* learning_rate as it is when the function runs.                          *)
run_experiment(lr) == lr

(* The MLP-Mixer experiment cell. *)
MixerCell ==
    /\ pc = "mlpmixer"
    /\ blocks' = BlockList(MLPMixerLayer(num_patches, embedding_dim), num_blocks, heap)
    /\ heap' = heap + num_blocks * ObjectCount("mixer")
    /\ learning_rate' = LrMixer
    /\ \E b \in Batches : model' = build_classifier(blocks', FALSE, b)
    /\ optimizer_lr' = run_experiment(learning_rate')
    /\ pc' = "fnet"
    /\ UNCHANGED Config

(* The FNet experiment cell. *)
FNetCell ==
    /\ pc = "fnet"
    /\ blocks' = BlockList(FNetLayer(num_patches, embedding_dim), num_blocks, heap)
    /\ heap' = heap + num_blocks * ObjectCount("fnet")
    /\ learning_rate' = LrFNet
    /\ \E b \in Batches : model' = build_classifier(blocks', TRUE, b)
    /\ optimizer_lr' = run_experiment(learning_rate')
    /\ pc' = "gmlp"
    /\ UNCHANGED Config

(* The gMLP experiment cell. *)
gMLPCell ==
    /\ pc = "gmlp"
    /\ blocks' = BlockList(gMLPLayer(num_patches, embedding_dim), num_blocks, heap)
    /\ heap' = heap + num_blocks * ObjectCount("gmlp")
    /\ learning_rate' = LrgMLP
    /\ \E b \in Batches : model' = build_classifier(blocks', FALSE, b)
    /\ optimizer_lr' = run_experiment(learning_rate')
    /\ pc' = "done"
    /\ UNCHANGED Config

Next == MixerCell \/ FNetCell \/ gMLPCell

Spec == Init /\ [][Next]_vars

----------------------------------------------------------------------------
(* Properties of the mixing blocks, under SpecLayer.                       *)

(* C1: for each of the three blocks, a call on an input (B, P, E) of a     *)
(* layer constructed for P patches of width E returns shape (B, P, E).     *)
C1_ShapeInvariance ==
    Configured => call.out.shape = call.inputs.shape

C5_OddWidthFailsFast ==
    (Configured /\ layer.kind = "gmlp")
        => /\ (layer.width % 2 = 0
                 => /\ call.u.shape = call.inputs.shape
                    /\ call.v.shape = call.inputs.shape)
           /\ (layer.width % 2 = 1 => IsErr(call.out))

(* C5 as amended: for every width E, even or odd, the spatial gating unit  *)
(* splits its 2E-wide input into halves u and v of width E each, and the   *)
(* block raises no error.                                                  *)
C5_SplitHalves ==
    (Configured /\ layer.kind = "gmlp")
        => /\ call.u.shape = call.inputs.shape
           /\ call.v.shape = call.inputs.shape
           /\ call.x_spatial.shape = call.inputs.shape
           /\ ~IsErr(call.out)

C5_Witness ==
    /\ Configured /\ layer.kind = "gmlp"
    /\ layer.width = 3
    /\ call.u.shape = <<2, 2, 3>>
    /\ ~IsErr(call.out)

(* C10: in MLPMixerLayer.call the token-mixing output (normalize,          *)
(* transpose, mlp1, transpose back) has the shape (B, P, E) of the block   *)
(* input it is then added to.                                              *)
C10_TokenMixingShape ==
    (Configured /\ layer.kind = "mixer")
        => call.mlp1_outputs.shape = call.inputs.shape

C10_Witness ==
    /\ Configured /\ layer.kind = "mixer"
    /\ call.inputs.shape = <<2, 3, 2>>
    /\ call.mlp1_outputs.shape = <<2, 3, 2>>

----------------------------------------------------------------------------
(* Properties of build_classifier, under Spec.                             *)

Built == pc # "mlpmixer"

(* C2: when patch_size divides image_size, Patches.call returns            *)
(* (image_size / patch_size)^2 patches per image, each of length           *)
(* patch_size^2 * C, and that count is num_patches.                        *)
C2_PatchCount ==
    (Built /\ image_size % patch_size = 0)
        => LET n == image_size \div patch_size
           IN  /\ model.patches.shape =
                     <<model.batch, n * n, patch_size * patch_size * channels>>
               /\ n * n = num_patches

C2_Witness ==
    /\ Built
    /\ image_size = 4 /\ patch_size = 2 /\ channels = 3
    /\ model.patches.shape = <<2, 4, 12>>

(* C3: when patch_size does not divide image_size, build_classifier ends   *)
(* in an error: no patch sequence and no model are produced.               *)
C3_NonDivisibleRaises ==
    (Built /\ image_size % patch_size # 0)
        => (IsErr(model.patches) /\ ~model.built)

NotebookConfig ==
    /\ image_size = NbImageSize /\ patch_size = NbPatchSize
    /\ embedding_dim = NbEmbeddingDim /\ num_blocks = NbNumBlocks
    /\ channels = NbChannels

(* C7: with the notebook's configuration and a batch of 2 images, every    *)
(* block stack gives patches (2, 64, 192), embeddings (2, 64, 256), a      *)
(* block-stack output (2, 64, 256) and logits (2, num_classes).            *)
C7_NotebookShapes ==
    (Built /\ NotebookConfig /\ model.batch = 2)
        => /\ model.patches.shape = <<2, 64, 192>>
           /\ model.embedded.shape = <<2, 64, 256>>
           /\ model.x.shape = <<2, 64, 256>>
           /\ model.logits.shape = <<2, NbNumClasses>>

C7_Witness ==
    /\ pc = "done" /\ NotebookConfig /\ model.batch = 2
    /\ Len(blocks) = 4 /\ blocks[4].kind = "gmlp"
    /\ model.x.shape = <<2, 64, 256>>
    /\ model.built

(* C8: with positional_encoding=True the table has num_patches rows and    *)
(* patch i of every image gets row i added exactly once; with              *)
(* positional_encoding=False nothing is added and the blocks get the       *)
(* embeddings themselves.                                                  *)
C8_PositionalRows ==
    Built =>
        /\ DOMAIN model.added = 1..model.batch
        /\ \A b \in 1..model.batch : DOMAIN model.added[b] = 1..num_patches
        /\ model.positional =>
              /\ model.table_rows = num_patches
              /\ \A b \in 1..model.batch : \A i \in 1..num_patches :
                    model.added[b][i] = <<i - 1>>
              /\ model.x0.shape = model.embedded.shape
        /\ ~model.positional =>
              /\ \A b \in 1..model.batch : \A i \in 1..num_patches :
                    model.added[b][i] = << >>
              /\ model.x0 = model.embedded

C8_Witness ==
    /\ pc = "gmlp" /\ model.positional
    /\ num_patches = 4 /\ model.batch = 2
    /\ model.added[2][4] = <<3>>
    /\ model.added[1][1] = <<0>>

----------------------------------------------------------------------------
(* Properties of Patches.call on pixels, under SpecPatches.                *)

PxElements ==
    {<<b, k, d>> : b \in 0..(px.batch - 1),
                   k \in 0..(num_patches - 1),
                   d \in 0..(patch_size * patch_size * channels - 1)}

PxAt(e) == px.at[e[1]][e[2]][e[3]]

(* C6: with n = image_size / patch_size, patch k holds exactly the pixels  *)
(* of the tile at row k div n and column k mod n of its own image; every   *)
(* pixel of the image is in exactly one patch; and the place of a pixel in *)
(* the patch vector depends only on its offset in the tile and its channel. *)
C6_RasterOrder ==
    (px.ok /\ image_size % patch_size = 0)
        => LET n == image_size \div patch_size
           IN  /\ \A e \in PxElements :
                     /\ PxAt(e)[1] = e[1]
                     /\ PxAt(e)[2] \div patch_size = e[2] \div n
                     /\ PxAt(e)[3] \div patch_size = e[2] % n
               /\ {PxAt(e) : e \in PxElements} =
                     (0..(px.batch - 1)) \X (0..(image_size - 1))
                         \X (0..(image_size - 1)) \X (0..(channels - 1))
               /\ Cardinality(PxElements) =
                     px.batch * image_size * image_size * channels
               /\ \A e \in PxElements :
                     LET f == PxAt(<<0, 0, e[3]>>)
                     IN  /\ PxAt(e)[2] % patch_size = f[2] % patch_size
                         /\ PxAt(e)[3] % patch_size = f[3] % patch_size
                         /\ PxAt(e)[4] = f[4]

C6_Witness ==
    /\ px.ok /\ px.batch = 2
    /\ image_size = 6 /\ patch_size = 3 /\ channels = 2
    /\ px.at[1][3][0] = <<1, 3, 3, 0>>
    /\ px.at[1][1][17] = <<1, 2, 5, 1>>

----------------------------------------------------------------------------
(* Properties of FNetLayer.call on values, under SpecFNet.                 *)

AllZero(x) == \A k \in DOMAIN x : \A l \in DOMAIN x[k] : x[k][l] = 0

(* C9: on an all-zero input, the residual sum FNetLayer.call passes to     *)
(* normalize1 (real part of the 2D transform, plus the input) is all zero. *)
C9_ZeroInput ==
    (fval.called /\ AllZero(fval.inputs))
        => /\ DOMAIN fval.x_sum = DOMAIN fval.inputs
           /\ AllZero(fval.x_sum)

C9_Witness ==
    /\ fval.called
    /\ fval.inputs = <<<<0, 0>>, <<0, 0>>>>
    /\ fval.x_sum = <<<<0, 0>>, <<0, 0>>>>

----------------------------------------------------------------------------
(* Properties of the experiment cells, under Spec.                         *)

(* C11: with the cells run in order, run_experiment builds the optimizer   *)
(* with 0.005 for MLP-Mixer, 0.001 for FNet and 0.003 for gMLP (in         *)
(* thousandths: 5, 1, 3), always the value last assigned to the global     *)
(* learning_rate.                                                          *)
C11_LearningRates ==
    /\ pc = "fnet" => optimizer_lr = 5
    /\ pc = "gmlp" => optimizer_lr = 1
    /\ pc = "done" => optimizer_lr = 3
    /\ Built => optimizer_lr = learning_rate

C11_Witness ==
    /\ pc = "done"
    /\ blocks[1].kind = "gmlp"
    /\ learning_rate = 3 /\ optimizer_lr = 3

(* The objects whose parameters a block owns: itself and its attributes.   *)
Owned(b) == {b.at} \cup {b.sublayers[a].at : a \in DOMAIN b.sublayers}

StackKind ==
    CASE pc = "fnet" -> "mixer" [] pc = "gmlp" -> "fnet" [] pc = "done" -> "gmlp"
      [] OTHER -> "none"

(* The output of the first i blocks applied one after the other to x0. *)
Chain[i \in 0..num_blocks] ==
    IF i = 0 THEN model.x0 ELSE LayerCall(blocks[i], Chain[i - 1]).out

(* C12: each block stack is num_blocks distinct instances of one variant,  *)
(* block i + 1 taking the output of block i, and no two blocks of the      *)
(* stack own a common object (and so no common trainable parameter).       *)
C12_BlockStack ==
    Built =>
        /\ Len(blocks) = num_blocks
        /\ \A i \in 1..num_blocks : blocks[i].kind = StackKind
        /\ \A i \in 1..num_blocks : \A j \in 1..num_blocks :
              i # j => Owned(blocks[i]) \cap Owned(blocks[j]) = {}
        /\ model.x = Chain[num_blocks]

C12_Witness ==
    /\ pc = "gmlp" /\ num_blocks = 4
    /\ Len(blocks) = 4 /\ blocks[4].kind = "fnet"
    /\ Cardinality(UNION {Owned(blocks[i]) : i \in 1..4}) = 16
    /\ model.built

----------------------------------------------------------------------------
(* Properties of the blocks' normalization layers, under SpecLayer.        *)

IsNorm(l, a) ==
    a \in DOMAIN l.sublayers /\ l.sublayers[a].class = "LayerNormalization"

(* The normalization objects a block owns. *)
NormObjects(l) ==
    {l.sublayers[a].at : a \in {a \in DOMAIN l.sublayers : IsNorm(l, a)}}

(* The normalization objects the computation of a tensor went through. *)
NormUsed(l, t) ==
    {l.sublayers[t.term[i]].at : i \in {i \in DOMAIN t.term : IsNorm(l, t.term[i])}}

(* C13: in MLPMixerLayer the normalization before token mixing and the one *)
(* before channel mixing are the same object, the only normalization the   *)
(* block owns; FNetLayer and gMLPLayer own and use two different ones.     *)
C13_NormalizationObjects ==
    /\ (layer.kind = "mixer" /\ ~IsErr(call.out)) =>
          LET before_token   == call.mlp1_outputs.term[4]
              before_channel == call.mlp2_outputs.term[2]
          IN  /\ IsNorm(layer, before_token)
              /\ IsNorm(layer, before_channel)
              /\ layer.sublayers[before_token].at
                    = layer.sublayers[before_channel].at
              /\ NormUsed(layer, call.out) = NormObjects(layer)
    /\ layer.kind = "mixer" => Cardinality(NormObjects(layer)) = 1
    /\ layer.kind \in {"fnet", "gmlp"} =>
          /\ Cardinality(NormObjects(layer)) = 2
          /\ layer.sublayers.normalize1.at # layer.sublayers.normalize2.at
          /\ ~IsErr(call.out) => NormUsed(layer, call.out) = NormObjects(layer)

C13_Witness ==
    /\ layer.kind = "mixer" /\ ~IsErr(call.out)
    /\ call.inputs.shape = <<2, 3, 2>>
    /\ call.mlp1_outputs.term[4] = "normalize"
    /\ call.mlp2_outputs.term[2] = "normalize"
    /\ Cardinality(NormObjects(layer)) = 1

====
